---------------------------- MODULE Spec2Model ----------------------------
(***************************************************************************)
(* A model of gpsgeomancy.py: the NMEA sentence decoder (checksum,         *)
(* formatline), the GSV assembler (parseGSV, formatgsvlist), the satellite *)
(* table (makesatdict), the direction classifier (directionclassify), the  *)
(* candidate selector (selectsats), the renderer (inttodot,                *)
(* preparemothers) and the control flow of main with its two read loops    *)
(* (waitforfix, getsatellites) and their KeyboardInterrupt handlers.       *)
(*                                                                         *)
(* Python values are modelled as follows.                                  *)
(*   str            a sequence of one-character strings                    *)
(*   list           a sequence                                             *)
(*   a call         a record [exc, val]: exc = "" is a normal return of    *)
(*                  val, any other exc is the name of the exception the    *)
(*                  call raises                                            *)
(*   dict of ints   a sequence of [prn, vals] in iteration order           *)
(*   dict of strs   a function whose DOMAIN is the set of keys             *)
(***************************************************************************)
EXTENDS Integers, Sequences, FiniteSets, TLC

VARIABLES
    pc,                  \* the function main is executing, or how it ended
    gpsOpen,             \* the serial port: TRUE from connectgps to gps.close()
    interrupted,         \* a KeyboardInterrupt was raised in a gps.readline()
    consumed,            \* the lines gps.readline() has returned so far
    gsvlist,             \* parseGSV's local list of decoded sentences
    num_of_sentences,    \* parseGSV's local int(line[1])
    satellitepositions,  \* main's local: what getsatellites returned
    satdict,             \* main's local: the satellite table
    chosenfour,          \* main's local: what selectsats returned
    motherstring,        \* main's local: what preparemothers returned
    exc,                 \* the uncaught exception that ended main, if any
    line,                \* formatline's argument (decoder specification)
    decoded              \* formatline's result (decoder specification)

vars == <<pc, gpsOpen, interrupted, consumed, gsvlist, num_of_sentences,
          satellitepositions, satdict, chosenfour, motherstring, exc,
          line, decoded>>

-----------------------------------------------------------------------------
(* Bounds of the model. *)

\* The longest line the decoder specification enumerates over Alphabet.
MaxLineLen == 5

\* The most lines the transport delivers in one run.
MaxReads == 4

\* The most satellites in a table of the selector specification.
MaxSats == 3

-----------------------------------------------------------------------------
(* Python primitives. *)

Return(v) == [exc |-> "", val |-> v]

Raise(e) == [exc |-> e, val |-> <<>>]

\* The ASCII characters chr(32) .. chr(95), in order: the characters of an
\* NMEA sentence (upper-case letters, digits, punctuation).
Ascii ==
    <<" ","!","\"","#","$","%","&","'","(",")","*","+",",","-",".","/",
      "0","1","2","3","4","5","6","7","8","9",":",";","<","=",">","?",
      "@","A","B","C","D","E","F","G","H","I","J","K","L","M","N","O",
      "P","Q","R","S","T","U","V","W","X","Y","Z","[","\\","]","^","_">>

\* chr(11), the vertical tab: the character between the quotes.
VT == ""

\* ord(character)
ord(c) ==
    IF c = "\t" THEN 9
    ELSE IF c = "\n" THEN 10
    ELSE IF c = VT THEN 11
    ELSE IF c = "\f" THEN 12
    ELSE IF c = "\r" THEN 13
    ELSE 31 + (CHOOSE i \in 1..Len(Ascii) : Ascii[i] = c)

\* a ^ b on non-negative integers
RECURSIVE xor(_, _)
xor(a, b) ==
    IF a = 0 THEN b
    ELSE IF b = 0 THEN a
    ELSE (((a % 2) + (b % 2)) % 2) + (2 * xor(a \div 2, b \div 2))

HexDigits == <<"0","1","2","3","4","5","6","7","8","9","a","b","c","d","e","f">>

\* "%02x" % n, for the byte values an XOR of characters takes
RECURSIVE hex(_)
hex(n) == IF n < 16 THEN <<HexDigits[n + 1]>>
          ELSE hex(n \div 16) \o <<HexDigits[(n % 16) + 1]>>

format02x(n) == IF n < 16 THEN <<"0">> \o hex(n) ELSE hex(n)

\* str.upper(), on the characters a hexadecimal string holds
upper(s) ==
    [i \in 1..Len(s) |->
        CASE s[i] = "a" -> "A" [] s[i] = "b" -> "B" [] s[i] = "c" -> "C"
          [] s[i] = "d" -> "D" [] s[i] = "e" -> "E" [] s[i] = "f" -> "F"
          [] OTHER -> s[i]]

\* s[a:], a >= 0
sliceFrom(s, a) == SubSeq(s, a + 1, Len(s))

\* s[a:b], 0 <= a, 0 <= b
slice(s, a, b) == SubSeq(s, a + 1, IF b < Len(s) THEN b ELSE Len(s))

\* s.startswith(prefix)
startswith(s, prefix) ==
    Len(s) >= Len(prefix) /\ SubSeq(s, 1, Len(prefix)) = prefix

\* s.endswith(suffix)
endswith(s, suffix) ==
    Len(s) >= Len(suffix)
    /\ SubSeq(s, Len(s) - Len(suffix) + 1, Len(s)) = suffix

\* s.rfind(c): the 0-based index of the last c in s, or -1
rfind(s, c) ==
    IF \E i \in 1..Len(s) : s[i] = c
    THEN (CHOOSE i \in 1..Len(s) :
              s[i] = c /\ \A j \in (i + 1)..Len(s) : s[j] # c) - 1
    ELSE -1

\* s.split(sep), sep one character
RECURSIVE split(_, _)
split(s, sep) ==
    IF \E i \in 1..Len(s) : s[i] = sep
    THEN LET i == CHOOSE k \in 1..Len(s) :
                      s[k] = sep /\ \A j \in 1..(k - 1) : s[j] # sep
         IN  <<SubSeq(s, 1, i - 1)>> \o split(SubSeq(s, i + 1, Len(s)), sep)
    ELSE <<s>>

Digits == <<"0","1","2","3","4","5","6","7","8","9">>

isdigit(c) == \E i \in 1..10 : Digits[i] = c

RECURSIVE decimal(_)
decimal(s) ==
    IF s = <<>> THEN 0
    ELSE (10 * decimal(SubSeq(s, 1, Len(s) - 1)))
         + ((CHOOSE i \in 1..10 : Digits[i] = s[Len(s)]) - 1)

\* The characters int() skips: chr(9) .. chr(13) and the blank.
Whitespace == {" ", "\t", "\n", VT, "\f", "\r"}

\* s without the blanks it starts with
RECURSIVE skipleading(_)
skipleading(s) ==
    IF s # <<>> /\ s[1] \in Whitespace THEN skipleading(Tail(s)) ELSE s

\* s without the blanks it ends with
RECURSIVE skiptrailing(_)
skiptrailing(s) ==
    IF s # <<>> /\ s[Len(s)] \in Whitespace
    THEN skiptrailing(SubSeq(s, 1, Len(s) - 1)) ELSE s

\* int(item) of a str.  Blanks are skipped before the sign, between the sign
\* and the digits, and after the digits; one sign may precede the digits and
\* at least one decimal digit is required.  ValueError for every other
\* string (empty, blank, a sign alone, two signs, a blank between digits, a
\* letter, a '.').
int(item) ==
    LET s      == skipleading(item)
        signed == s # <<>> /\ s[1] \in {"+", "-"}
        digits == skiptrailing(skipleading(IF signed THEN Tail(s) ELSE s))
    IN  IF digits # <<>> /\ \A i \in 1..Len(digits) : isdigit(digits[i])
        THEN Return(IF signed /\ s[1] = "-" THEN 0 - decimal(digits)
                    ELSE decimal(digits))
        ELSE Raise("ValueError")

-----------------------------------------------------------------------------
(* checksum and formatline *)

\* The loop of checksum: XOR of ord over data.
RECURSIVE xorAll(_)
xorAll(data) ==
    IF data = <<>> THEN 0
    ELSE xor(xorAll(SubSeq(data, 1, Len(data) - 1)), ord(data[Len(data)]))

\* checksum(data).  hex_checksum is assigned in the body of the loop only,
\* so the return statement reads an unbound local when data is empty.
checksum(data) ==
    IF data = <<>> THEN Raise("UnboundLocalError")
    ELSE Return(upper(format02x(xorAll(data))))

\* Python's None as formatline returns it, and a decoded sentence.
None == [none |-> TRUE, fields |-> <<>>]

Fields(f) == [none |-> FALSE, fields |-> f]

\* formatline(line, verbose).  line.strip() discards its result; verbose
\* only prints.
formatline(l) ==
    LET l1    == IF endswith(l, <<"\r", "\n">>) THEN slice(l, 0, Len(l) - 2)
                 ELSE l
        star  == rfind(l1, "*")
        check == sliceFrom(l1, star + 1)
        l2    == slice(l1, 1, star)
        sum   == checksum(l2)
    IN  IF star >= 0
        THEN IF sum.exc # "" THEN sum
             ELSE IF sum.val # check THEN Return(None)
             ELSE Return(Fields(split(sliceFrom(l2, 2), ",")))
        ELSE Return(None)

-----------------------------------------------------------------------------
(* The lines of the transport. *)

\* A two-sentence satellite-view report (four satellites, one per
\* direction, the identifier of the last one hashing to the first slot of
\* the table), a one-sentence report, a follow-up sentence with a corrupted
\* payload byte, a one-sentence report whose fields carry a sign, a blank
\* after the sign or a leading blank, a first sentence without checksum marker, two fix-status
\* sentences (active, void) and the empty read of a timeout.
Lines ==
    [ GSV1of2 |->
        <<"$","G","P","G","S","V",",","2",",","1",",","0","4",",",
          "0","1",",","4","0",",","0","1","0",",","2","0",",",
          "0","2",",","3","0",",","1","0","0",",","2","5",
          "*","7","F","\r","\n">>,
      GSV2of2 |->
        <<"$","G","P","G","S","V",",","2",",","2",",","0","4",",",
          "0","3",",","1","1",",","1","9","0",",","3","1",",",
          "0","8",",","2","2",",","2","6","0",",",
          "*","7","8","\r","\n">>,
      GSV1of1 |->
        <<"$","G","P","G","S","V",",","1",",","1",",","0","1",",",
          "0","5",",","4","0",",","0","1","0",",","2","0",
          "*","4","A","\r","\n">>,
      GSVbad |->
        <<"$","G","P","G","S","V",",","2",",","2",",","0","4",",",
          "0","3",",","1","1",",","1","9","1",",","3","1",",",
          "0","8",",","2","2",",","2","6","0",",",
          "*","7","8","\r","\n">>,
      GSVsigned |->
        <<"$","G","P","G","S","V",",","1",",","1",",","0","1",",",
          "0","5",",","-"," ","5",","," ","1","0",",","+","2","0",
          "*","4","D","\r","\n">>,
      GSVnostar |->
        <<"$","G","P","G","S","V",",","2",",","1",",","0","4","\r","\n">>,
      RMCfix |->
        <<"$","G","P","R","M","C",",","1",",","A","*","3","B","\r","\n">>,
      RMCvoid |->
        <<"$","G","P","R","M","C",",","1",",","V","*","2","C","\r","\n">>,
      timeout |-> <<>> ]

LineIds == DOMAIN Lines

\* The characters of the lines the decoder specification enumerates.
Alphabet == {"$", "*", ",", "0", "4", "A"}

RECURSIVE SeqsUpTo(_, _)
SeqsUpTo(S, n) ==
    IF n = 0 THEN {<<>>}
    ELSE LET shorter == SeqsUpTo(S, n - 1)
         IN  shorter \cup {Append(s, c) : s \in {t \in shorter : Len(t) = n - 1}, c \in S}

\* Every line over Alphabet up to MaxLineLen, with and without "\r\n",
\* and the lines of the transport.
DecoderInputs ==
    LET bodies == SeqsUpTo(Alphabet, MaxLineLen)
    IN  bodies \cup {b \o <<"\r", "\n">> : b \in bodies}
               \cup {Lines[id] : id \in LineIds}

-----------------------------------------------------------------------------
(* Values of the variables that are not yet assigned. *)

NoExc == [type |-> "", where |-> ""]

Uncaught(e, f) == [type |-> e, where |-> f]

Unset == [tag |-> "unset", val |-> <<>>]

NoneReturned == [tag |-> "None", val |-> <<>>]

List(v) == [tag |-> "list", val |-> v]

NoDict == [d \in {} |-> <<>>]

-----------------------------------------------------------------------------
(* formatgsvlist and makesatdict *)

\* The inner loop of formatgsvlist over the items of one sentence: an empty
\* field counts as 0, every other field goes through int().
RECURSIVE formatitems(_)
formatitems(sentence) ==
    IF sentence = <<>> THEN Return(<<>>)
    ELSE LET before == formatitems(SubSeq(sentence, 1, Len(sentence) - 1))
             item   == sentence[Len(sentence)]
             n      == IF item = <<>> THEN Return(0) ELSE int(item)
         IN  IF before.exc # "" THEN before
             ELSE IF n.exc # "" THEN n
             ELSE Return(Append(before.val, n.val))

\* formatgsvlist(gsvlist).  sentence[4:] of a None member raises TypeError.
RECURSIVE formatgsvlist(_)
formatgsvlist(g) ==
    IF g = <<>> THEN Return(<<>>)
    ELSE LET before   == formatgsvlist(SubSeq(g, 1, Len(g) - 1))
             sentence == g[Len(g)]
             items    == formatitems(sliceFrom(sentence.fields, 4))
         IN  IF before.exc # "" THEN before
             ELSE IF sentence.none THEN Raise("TypeError")
             ELSE IF items.exc # "" THEN items
             ELSE Return(before.val \o items.val)

\* satdict is a dict of CPython 2.7 with int keys: a table of slots, a power
\* of two in number, iterated from the first slot to the last.  A slot of
\* the table is free or holds a key and its value.
FreeSlot == [used |-> FALSE, prn |-> 0, vals |-> <<>>]

\* A table of `size` free slots.
RECURSIVE freeslots(_)
freeslots(size) ==
    IF size = 0 THEN <<>> ELSE Append(freeslots(size - 1), FreeSlot)

\* satdict = {}: eight free slots.
emptydict == freeslots(8)

\* hash(prn) of an int
hash(n) == IF n = -1 THEN -2 ELSE n

\* h >> 5 * k, rounding down
RECURSIVE shifted(_, _)
shifted(h, k) == IF k = 0 THEN h ELSE shifted(h, k - 1) \div 32

\* The perturbation of the k-th probe, as far as the slot index depends on
\* it.  The hash is read as an unsigned 64-bit word and shifted right by
\* five bits per probe: a negative hash h is the word 2^64 + h, whose first
\* term is a multiple of the table size until it has been shifted below
\* 2^24, and is gone after the thirteenth shift.
perturb(h, k) ==
    IF h >= 0 THEN shifted(h, k)
    ELSE IF k > 12 THEN 0
    ELSE IF k >= 9 THEN (2 ^ (64 - (5 * k))) + shifted(h, k)
    ELSE shifted(h, k)

\* The slot of prn in table, probing from 0-based slot i after k probes: the
\* first slot of the probe sequence that is free or holds prn.
RECURSIVE lookdict(_, _, _, _)
lookdict(table, prn, i, k) ==
    IF ~table[i + 1].used \/ table[i + 1].prn = prn THEN i
    ELSE lookdict(table, prn,
                  ((5 * i) + perturb(hash(prn), k) + 1) % Len(table), k + 1)

slotof(table, prn) == lookdict(table, prn, hash(prn) % Len(table), 0)

\* The number of slots in use.
fill(table) == Cardinality({i \in 1..Len(table) : table[i].used})

\* The size of the table after a resize: the first power of two from eight
\* on that exceeds minused.
RECURSIVE newsize(_, _)
newsize(size, minused) ==
    IF size > minused THEN size ELSE newsize(2 * size, minused)

\* The new table of `size` slots after the entries in the first n slots of
\* the old table have been inserted, in slot order.
RECURSIVE reinsert(_, _, _)
reinsert(old, n, size) ==
    IF n = 0 THEN freeslots(size)
    ELSE LET before == reinsert(old, n - 1, size)
         IN  IF old[n].used
             THEN [before EXCEPT ![slotof(before, old[n].prn) + 1] = old[n]]
             ELSE before

dictresize(table, minused) ==
    reinsert(table, Len(table), newsize(8, minused))

\* satdict[prn] = vals.  A key already present keeps its slot; a new key
\* that leaves two thirds of the slots in use makes the table grow.
setitem(table, prn, vals) ==
    LET i      == slotof(table, prn)
        stored == [table EXCEPT
                      ![i + 1] = [used |-> TRUE, prn |-> prn, vals |-> vals]]
        used   == fill(stored)
    IN  IF ~table[i + 1].used /\ used * 3 >= Len(stored) * 2
        THEN dictresize(stored, (IF used > 50000 THEN 2 ELSE 4) * used)
        ELSE stored

\* The entries of the table in the order a loop over it meets them.
items(table) ==
    LET entries == SelectSeq(table, LAMBDA e : e.used)
    IN  [i \in 1..Len(entries) |->
            [prn |-> entries[i].prn, vals |-> entries[i].vals]]

\* The loop of makesatdict: one entry per chunk of four; a last chunk of
\* fewer than four raises IndexError.
RECURSIVE fillsatdict(_)
fillsatdict(flat) ==
    IF flat = <<>> THEN Return(emptydict)
    ELSE LET n      == Len(flat)
             start  == ((n - 1) \div 4) * 4
             before == fillsatdict(SubSeq(flat, 1, start))
         IN  IF before.exc # "" THEN before
             ELSE IF n - start < 4 THEN Raise("IndexError")
             ELSE Return(setitem(before.val, flat[start + 1],
                                 <<flat[start + 2], flat[start + 3],
                                   flat[start + 4]>>))

\* makesatdict(gsvlist).  The callers only loop over the dict and read and
\* extend its values, so it is returned as its entries in iteration order.
makesatdict(flat) ==
    LET filled == fillsatdict(flat)
    IN  IF filled.exc # "" THEN filled ELSE Return(items(filled.val))

-----------------------------------------------------------------------------
(* directionclassify *)

Directions == {"North", "East", "South", "West"}

abs(n) == IF n < 0 THEN 0 - n ELSE n

isNorth(azi) == azi > 315 \/ azi < 45

isEast(azi) == azi > 45 /\ azi < 135

isSouth(azi) == azi > 135 /\ azi < 225

isWest(azi) == azi > 225 /\ azi < 315

\* A faulty northdeviation: the azimuth itself also west of north.
northdeviation_nowrap(azi) == azi

northdeviation(azi) == IF azi > 180 THEN 360 - azi ELSE azi

\* The body of directionclassify's loop for one satellite: four independent
\* if statements, each appending a direction and an azideviation.
classify(vals) ==
    LET azi == vals[2]
        n == IF isNorth(azi)
             THEN vals \o <<"North", northdeviation(azi)>> ELSE vals
        e == IF isEast(azi) THEN n \o <<"East", abs(azi - 90)>> ELSE n
        s == IF isSouth(azi) THEN e \o <<"South", abs(azi - 180)>> ELSE e
        w == IF isWest(azi) THEN s \o <<"West", abs(azi - 270)>> ELSE s
    IN  w

\* directionclassify(satdict)
directionclassify(d) ==
    [i \in 1..Len(d) |-> [prn |-> d[i].prn, vals |-> classify(d[i].vals)]]

-----------------------------------------------------------------------------
(* selectsats *)

\* chosenfour[direction] = entry
setchosen(cf, direction, entry) ==
    [k \in DOMAIN cf \cup {direction} |->
        IF k = direction THEN entry ELSE cf[k]]

\* chosenfour[prn][3]: the keys of chosenfour are direction names, prn is an
\* int, so the lookup finds no key and raises KeyError.
chosenfourOfPrn(cf, prn) == Raise("KeyError")

\* Whether the satellite replaces the one chosen on an equal azideviation.
snrwins(cf, prn, snr) ==
    LET chosen == chosenfourOfPrn(cf, prn)
    IN  IF chosen.exc # "" THEN chosen ELSE Return(snr > chosen.val[4])

\* The body of selectsats' loop for one satellite.
select(cf, sat) ==
    LET prn  == sat.prn
        vals == sat.vals
    IN  IF Len(vals) < 5 THEN Raise("IndexError")
        ELSE LET direction == vals[4]
                 aziscore  == vals[5]
                 entry     == <<prn, vals[1], vals[2], vals[3], aziscore>>
             IN  IF direction \in DOMAIN cf
                 THEN IF aziscore < cf[direction][5]
                      THEN Return(setchosen(cf, direction, entry))
                      ELSE IF aziscore = cf[direction][5]
                      THEN LET wins == snrwins(cf, prn, vals[3])
                           IN  IF wins.exc # "" THEN wins
                               ELSE IF wins.val
                               THEN Return(setchosen(cf, direction, entry))
                               ELSE Return(cf)
                      ELSE Return(cf)
                 ELSE Return(setchosen(cf, direction, entry))

\* selectsats(satdict)
RECURSIVE selectsats(_)
selectsats(d) ==
    IF d = <<>> THEN Return(NoDict)
    ELSE LET before == selectsats(SubSeq(d, 1, Len(d) - 1))
         IN  IF before.exc # "" THEN before
             ELSE select(before.val, d[Len(d)])

-----------------------------------------------------------------------------
(* inttodot and preparemothers *)

dotchar == "*"

\* A faulty inttodot: zero drawn as one mark.
inttodot_zeroodd(integer) ==
    IF integer # 0 /\ integer % 2 = 0 THEN <<"*", "*">> ELSE <<"*", " ">>

inttodot(integer) ==
    IF integer % 2 = 0 THEN <<dotchar, dotchar>> ELSE <<dotchar, " ">>

spacer == <<" "," "," "," "," "," ">>

EOL == <<"\n">>

\* The two header lines of the diagram.
header ==
    <<" "," "," "," "," "," "," ","E","a","r","t","h"," "," "," "," ",
      "W","a","t","e","r"," "," "," "," ","A","i","r"," "," "," "," "," ",
      "F","i","r","e","\n",
      " "," "," "," "," "," "," "," ","I","V"," "," "," "," "," "," "," ",
      "I","I","I"," "," "," "," "," ","I","I"," "," "," "," "," "," "," ",
      "I">>

\* The footer line of the diagram.
footer ==
    <<" "," "," "," "," "," "," ","W","e","s","t"," "," "," "," "," ",
      "N","o","r","t","h"," "," "," "," ","E","a","s","t"," "," "," "," ",
      "S","o","u","t","h">>

\* The order of the columns: the list preparemothers iterates.
columns == <<"West", "North", "East", "South">>

\* One row of the diagram: its label, then a glyph pair per column for
\* attribute number attr (0-based, as the code indexes chosenfour[d]).
RECURSIVE row(_, _, _, _)
row(label, cf, attr, n) ==
    IF n = 0 THEN label \o spacer
    ELSE row(label, cf, attr, n - 1)
         \o inttodot(cf[columns[n]][attr + 1]) \o spacer

\* The text preparemothers builds from a chosenfour that has every column's
\* direction.
diagram(cf) ==
    header \o EOL
    \o row(<<"h","e","a","d">>, cf, 0, 4) \o EOL
    \o row(<<"n","e","c","k">>, cf, 1, 4) \o EOL
    \o row(<<"b","o","d","y">>, cf, 2, 4) \o EOL
    \o row(<<"f","e","e","t">>, cf, 3, 4) \o EOL
    \o footer

\* A faulty preparemothers: a missing direction drawn from zeros, as
\* chosenfour.get(d, [0, 0, 0, 0]) would.
preparemothers_defaulting(cf) ==
    Return(diagram([d \in {"West", "North", "East", "South"} |->
                       IF d \in DOMAIN cf THEN cf[d] ELSE <<0, 0, 0, 0>>]))

\* preparemothers(chosenfour): chosenfour[d] of a direction that is no key
\* raises KeyError.
preparemothers(cf) ==
    IF \E i \in 1..Len(columns) : columns[i] \notin DOMAIN cf
    THEN Raise("KeyError")
    ELSE Return(diagram(cf))

-----------------------------------------------------------------------------
(* The decoder specification: formatline applied to one line. *)

InitDecode ==
    /\ pc = "formatline"
    /\ line \in DecoderInputs
    /\ decoded = None
    /\ gpsOpen = FALSE
    /\ interrupted = FALSE
    /\ consumed = <<>>
    /\ gsvlist = <<>>
    /\ num_of_sentences = 0
    /\ satellitepositions = Unset
    /\ satdict = <<>>
    /\ chosenfour = NoDict
    /\ motherstring = <<>>
    /\ exc = NoExc

FormatLine ==
    /\ pc = "formatline"
    /\ LET r == formatline(line)
       IN  IF r.exc = ""
           THEN /\ decoded' = r.val
                /\ pc' = "decoded"
                /\ exc' = exc
           ELSE /\ decoded' = decoded
                /\ pc' = "crashed"
                /\ exc' = Uncaught(r.exc, "checksum")
    /\ UNCHANGED <<gpsOpen, interrupted, consumed, gsvlist, num_of_sentences,
                   satellitepositions, satdict, chosenfour, motherstring, line>>

NextDecode == FormatLine

SpecDecode == InitDecode /\ [][NextDecode]_vars

-----------------------------------------------------------------------------
(* The program: main from the return of connectgps on.  Each action is one  *)
(* blocking gps.readline() with everything the program does until the next  *)
(* one, or one of the calls main makes after getsatellites has returned.    *)
(* verbose only prints and is left out, as is waitforfix's interval_count,  *)
(* which only decides when "No GPS fix yet..." is printed.                  *)

Init ==
    /\ pc = "waitforfix"
    /\ gpsOpen = TRUE
    /\ interrupted = FALSE
    /\ consumed = <<>>
    /\ gsvlist = <<>>
    /\ num_of_sentences = 0
    /\ satellitepositions = Unset
    /\ satdict = <<>>
    /\ chosenfour = NoDict
    /\ motherstring = <<>>
    /\ exc = NoExc
    /\ line = <<>>
    /\ decoded = None

\* An exception no handler catches ends the process; the port stays open.
Crash(e, f) ==
    /\ pc' = "crashed"
    /\ exc' = Uncaught(e, f)

\* waitforfix: one iteration of its loop.
WaitForFixRead(id) ==
    /\ pc = "waitforfix"
    /\ Len(consumed) < MaxReads
    /\ consumed' = Append(consumed, id)
    /\ LET l == Lines[id]
           r == formatline(l)
       IN  IF ~startswith(l, <<"$","G","P","R","M","C">>)
           THEN UNCHANGED <<pc, exc>>
           ELSE IF r.exc # "" THEN Crash(r.exc, "checksum")
           ELSE IF r.val.none THEN UNCHANGED <<pc, exc>>
           ELSE IF Len(r.val.fields) < 3 THEN Crash("IndexError", "waitforfix")
           ELSE IF r.val.fields[3] = <<"A">>
           THEN pc' = "getsatellites" /\ exc' = exc
           ELSE UNCHANGED <<pc, exc>>
    /\ UNCHANGED <<gpsOpen, interrupted, gsvlist, num_of_sentences,
                   satellitepositions, satdict, chosenfour, motherstring,
                   line, decoded>>

\* The end of parseGSV and the rest of getsatellites: the group is complete,
\* formatgsvlist flattens it and getsatellites returns the flat list.
ReturnGroup(g) ==
    LET flat == formatgsvlist(g)
    IN  IF flat.exc # ""
        THEN /\ Crash(flat.exc, "formatgsvlist")
             /\ satellitepositions' = satellitepositions
        ELSE /\ pc' = "makesatdict"
             /\ exc' = exc
             /\ satellitepositions' = List(flat.val)

\* getsatellites: one iteration of its loop, with the start of parseGSV
\* when the line is a decoded satellite-view sentence.  A line that fails
\* decoding leaves the loop by break, and getsatellites returns None.
GetSatellitesRead(id) ==
    /\ pc = "getsatellites"
    /\ Len(consumed) < MaxReads
    /\ consumed' = Append(consumed, id)
    /\ LET l == Lines[id]
           r == formatline(l)
           n == IF r.exc = "" /\ ~r.val.none /\ Len(r.val.fields) >= 2
                THEN int(r.val.fields[2]) ELSE Raise("IndexError")
       IN  IF ~startswith(l, <<"$","G","P","G","S","V">>)
           THEN UNCHANGED <<pc, exc, gsvlist, num_of_sentences,
                            satellitepositions>>
           ELSE IF r.exc # ""
           THEN /\ Crash(r.exc, "checksum")
                /\ UNCHANGED <<gsvlist, num_of_sentences, satellitepositions>>
           ELSE IF r.val.none
           THEN /\ pc' = "makesatdict"
                /\ satellitepositions' = NoneReturned
                /\ UNCHANGED <<exc, gsvlist, num_of_sentences>>
           ELSE IF n.exc # ""
           THEN /\ Crash(n.exc, "parseGSV")
                /\ gsvlist' = <<r.val>>
                /\ UNCHANGED <<num_of_sentences, satellitepositions>>
           ELSE /\ gsvlist' = <<r.val>>
                /\ num_of_sentences' = n.val
                /\ IF n.val - 1 > 0
                   THEN /\ pc' = "parseGSV"
                        /\ UNCHANGED <<exc, satellitepositions>>
                   ELSE ReturnGroup(<<r.val>>)
    /\ UNCHANGED <<gpsOpen, interrupted, satdict, chosenfour, motherstring,
                   line, decoded>>

\* parseGSV: one iteration of its loop; after the last one, the rest of
\* getsatellites.
ParseGSVRead(id) ==
    /\ pc = "parseGSV"
    /\ Len(consumed) < MaxReads
    /\ consumed' = Append(consumed, id)
    /\ LET r == formatline(Lines[id])
       IN  IF r.exc # ""
           THEN /\ Crash(r.exc, "checksum")
                /\ UNCHANGED <<gsvlist, satellitepositions>>
           ELSE /\ gsvlist' = Append(gsvlist, r.val)
                /\ IF Len(gsvlist) + 1 < num_of_sentences
                   THEN UNCHANGED <<pc, exc, satellitepositions>>
                   ELSE ReturnGroup(Append(gsvlist, r.val))
    /\ UNCHANGED <<gpsOpen, interrupted, num_of_sentences, satdict,
                   chosenfour, motherstring, line, decoded>>

\* The functions in which the program blocks in gps.readline().
ReadSites == {"waitforfix", "getsatellites", "parseGSV"}

\* A faulty catches: parseGSV's readline outside every try.
catches_ownframe(site) == site \in {"waitforfix", "getsatellites"}

\* Whether a KeyboardInterrupt raised in the readline of function site is
\* caught: waitforfix and getsatellites read inside their own try, and
\* parseGSV is called from inside the try of getsatellites.
catches(site) == site \in {"waitforfix", "getsatellites", "parseGSV"}

\* The user's ctrl-c while the program blocks in a read.  The handler closes
\* the port and calls sys.exit().
KeyboardInterrupt(site) ==
    /\ pc = site
    /\ interrupted' = TRUE
    /\ IF catches(site)
       THEN /\ gpsOpen' = FALSE
            /\ pc' = "exited"
            /\ exc' = exc
       ELSE /\ gpsOpen' = gpsOpen
            /\ Crash("KeyboardInterrupt", site)
    /\ UNCHANGED <<consumed, gsvlist, num_of_sentences, satellitepositions,
                   satdict, chosenfour, motherstring, line, decoded>>

\* main: satdict = makesatdict(satellitepositions).  len(None) raises
\* TypeError.
MakeSatDict ==
    /\ pc = "makesatdict"
    /\ LET r == IF satellitepositions.tag = "list"
                THEN makesatdict(satellitepositions.val)
                ELSE Raise("TypeError")
       IN  IF r.exc # ""
           THEN Crash(r.exc, "makesatdict") /\ satdict' = satdict
           ELSE pc' = "directionclassify" /\ exc' = exc /\ satdict' = r.val
    /\ UNCHANGED <<gpsOpen, interrupted, consumed, gsvlist, num_of_sentences,
                   satellitepositions, chosenfour, motherstring, line,
                   decoded>>

\* main: satdict = directionclassify(satdict)
DirectionClassify ==
    /\ pc = "directionclassify"
    /\ satdict' = directionclassify(satdict)
    /\ pc' = "selectsats"
    /\ UNCHANGED <<gpsOpen, interrupted, consumed, gsvlist, num_of_sentences,
                   satellitepositions, chosenfour, motherstring, exc, line,
                   decoded>>

\* main: chosenfour = selectsats(satdict)
SelectSats ==
    /\ pc = "selectsats"
    /\ LET r == selectsats(satdict)
       IN  IF r.exc # ""
           THEN Crash(r.exc, "selectsats") /\ chosenfour' = chosenfour
           ELSE pc' = "preparemothers" /\ exc' = exc /\ chosenfour' = r.val
    /\ UNCHANGED <<gpsOpen, interrupted, consumed, gsvlist, num_of_sentences,
                   satellitepositions, satdict, motherstring, line, decoded>>

\* main: motherstring = preparemothers(chosenfour), then the prints.
PrepareMothers ==
    /\ pc = "preparemothers"
    /\ LET r == preparemothers(chosenfour)
       IN  IF r.exc # ""
           THEN Crash(r.exc, "preparemothers") /\ motherstring' = motherstring
           ELSE pc' = "done" /\ exc' = exc /\ motherstring' = r.val
    /\ UNCHANGED <<gpsOpen, interrupted, consumed, gsvlist, num_of_sentences,
                   satellitepositions, satdict, chosenfour, line, decoded>>

Next ==
    \/ \E id \in LineIds : WaitForFixRead(id)
    \/ \E id \in LineIds : GetSatellitesRead(id)
    \/ \E id \in LineIds : ParseGSVRead(id)
    \/ \E site \in ReadSites : KeyboardInterrupt(site)
    \/ MakeSatDict
    \/ DirectionClassify
    \/ SelectSats
    \/ PrepareMothers

Spec == Init /\ [][Next]_vars

-----------------------------------------------------------------------------
(* The classifier specification: directionclassify applied to a table of    *)
(* one satellite, over every integer azimuth.                               *)

AzimuthRange == 0..359

BoundaryAzimuths == {45, 135, 225, 315}

EleSamples == {7, 40}

SnrSamples == {0, 25}

InitPure ==
    /\ gpsOpen = FALSE
    /\ interrupted = FALSE
    /\ consumed = <<>>
    /\ gsvlist = <<>>
    /\ num_of_sentences = 0
    /\ satellitepositions = Unset
    /\ motherstring = <<>>
    /\ exc = NoExc
    /\ line = <<>>
    /\ decoded = None

InitClassify ==
    /\ InitPure
    /\ pc = "directionclassify"
    /\ satdict \in {<<[prn |-> 1, vals |-> <<ele, azi, snr>>]>> :
                        ele \in EleSamples, azi \in AzimuthRange,
                        snr \in SnrSamples}
    /\ chosenfour = NoDict

NextClassify == DirectionClassify

SpecClassify == InitClassify /\ [][NextClassify]_vars

-----------------------------------------------------------------------------
(* The selector specification: directionclassify, then selectsats, applied  *)
(* to every table of at most MaxSats satellites whose azimuths and          *)
(* signal-to-noise values come from the samples.  The i-th satellite put     *)
(* in the table has prn i.                                                  *)

\* Azimuths of every direction, among them two of the same direction with
\* the same deviation (80 and 100, 10 and 350) and one closer to the ideal
\* bearing (95), and two of the boundaries.
AziSamples == {10, 350, 45, 80, 95, 100, 190, 260, 315}

SelectSnrSamples == {20, 30}

SelectEleSamples == {40}

SatSamples ==
    {<<ele, azi, snr>> : ele \in SelectEleSamples, azi \in AziSamples,
                         snr \in SelectSnrSamples}

\* The dict after satdict[i] = t[i] for i = 1 .. Len(t).
RECURSIVE dictof(_)
dictof(t) ==
    IF t = <<>> THEN emptydict
    ELSE setitem(dictof(SubSeq(t, 1, Len(t) - 1)), Len(t), t[Len(t)])

Tables == {items(dictof(t)) : t \in SeqsUpTo(SatSamples, MaxSats)}

InitSelect ==
    /\ InitPure
    /\ pc = "directionclassify"
    /\ satdict \in Tables
    /\ chosenfour = NoDict

NextSelect == DirectionClassify \/ SelectSats

SpecSelect == InitSelect /\ [][NextSelect]_vars

-----------------------------------------------------------------------------
(* The renderer specification: preparemothers applied to every ChosenFour   *)
(* that has, for each direction, no entry or the entry of one of the        *)
(* sample satellites of that direction.                                     *)

\* An even and an odd azimuth inside each direction's interval.
RenderAzimuths ==
    [North |-> {10, 351}, East |-> {80, 95}, South |-> {190, 175},
     West |-> {260, 281}]

\* An even and an odd identifier for each direction.
RenderPrns ==
    [North |-> {1, 2}, East |-> {3, 4}, South |-> {5, 6}, West |-> {7, 8}]

\* The entry selectsats stores for a satellite: [prn, ele, azi, snr, aziscore].
Entries(d) ==
    {<<prn, ele, azi, snr, classify(<<ele, azi, snr>>)[5]>> :
        prn \in RenderPrns[d], ele \in EleSamples,
        azi \in RenderAzimuths[d], snr \in SnrSamples}

\* No entry (the empty tuple) or one of the direction's entries.
Options(d) == {<<>>} \cup Entries(d)

ChosenFours ==
    {LET c == [North |-> n, East |-> e, South |-> s, West |-> w]
     IN  [d \in {k \in Directions : c[k] # <<>>} |-> c[d]] :
        n \in Options("North"), e \in Options("East"),
        s \in Options("South"), w \in Options("West")}

InitRender ==
    /\ InitPure
    /\ pc = "preparemothers"
    /\ satdict = <<>>
    /\ chosenfour \in ChosenFours

NextRender == PrepareMothers

SpecRender == InitRender /\ [][NextRender]_vars

-----------------------------------------------------------------------------
(* Properties of the decoder. *)

\* Whether line l, with its "\r\n" removed, holds a '*' whose two following
\* characters end the line and are the two upper-case hexadecimal digits of
\* the XOR of the characters between the first character and the last '*'.
ChecksumMatches(l) ==
    LET body == IF endswith(l, <<"\r", "\n">>) THEN SubSeq(l, 1, Len(l) - 2)
                ELSE l
    IN  \E star \in 1..Len(body) :
            /\ body[star] = "*"
            /\ \A j \in (star + 1)..Len(body) : body[j] # "*"
            /\ Len(body) = star + 2
            /\ LET x == xorAll(SubSeq(body, 2, star - 1))
                   upperhex == <<"0","1","2","3","4","5","6","7","8","9",
                                 "A","B","C","D","E","F">>
               IN  /\ body[star + 1] = upperhex[(x \div 16) + 1]
                   /\ body[star + 2] = upperhex[(x % 16) + 1]

\* C6: formatline never raises: for every line it returns a field sequence
\* or None, and it returns a field sequence only when the line holds a '*'
\* and the two characters after the last '*' are the upper-case hexadecimal
\* XOR of the characters between the start character and that '*'.
C6_FormatlineTotal ==
    pc # "formatline" =>
        /\ pc = "decoded"
        /\ exc = NoExc
        /\ (~decoded.none => ChecksumMatches(line))

-----------------------------------------------------------------------------
(* Properties of the classifier. *)

\* The ideal bearing of a direction.
IdealBearing == [North |-> 0, East |-> 90, South |-> 180, West |-> 270]

\* The angle between two bearings, in degrees.
AngularDistance(a, b) ==
    LET d == abs(a - b) IN IF d > 180 THEN 360 - d ELSE d

\* The direction the claim gives an azimuth outside the boundaries.
ClaimedDirection(azi) ==
    CASE azi > 315 \/ azi < 45 -> "North"
      [] 45 < azi /\ azi < 135 -> "East"
      [] 135 < azi /\ azi < 225 -> "South"
      [] 225 < azi /\ azi < 315 -> "West"

\* C7: after directionclassify, a satellite whose azimuth is in 0..359 and
\* not 45, 135, 225 or 315 carries exactly one direction and one deviation:
\* the direction of its interval, and the angular distance to that
\* direction's ideal bearing, which lies in 0..45; a satellite on a boundary
\* azimuth carries neither.
C7_ClassifyTotalExclusive ==
    pc = "selectsats" =>
        \A i \in 1..Len(satdict) :
            LET vals == satdict[i].vals
                azi  == vals[2]
            IN  IF azi \in BoundaryAzimuths
                THEN Len(vals) = 3
                ELSE /\ Len(vals) = 5
                     /\ vals[4] = ClaimedDirection(azi)
                     /\ vals[5] = AngularDistance(azi, IdealBearing[vals[4]])
                     /\ vals[5] >= 0
                     /\ vals[5] <= 45

\* A satellite at azimuth 350 has been classified North with deviation 10.
C7_Witness ==
    /\ pc = "selectsats"
    /\ satdict[1].vals[2] = 350
    /\ Len(satdict[1].vals) = 5
    /\ satdict[1].vals[4] = "North"
    /\ satdict[1].vals[5] = 10

-----------------------------------------------------------------------------
(* Properties of the selector. *)

\* selectsats has run: it returned or raised.
Selected == pc = "preparemothers" \/ pc = "crashed"

\* Every satellite of the table carries a direction and a deviation.
Classified == \A i \in 1..Len(satdict) : Len(satdict[i].vals) = 5

\* The satellites of the table classified into direction d.
Candidates(d) ==
    {i \in 1..Len(satdict) :
        Len(satdict[i].vals) = 5 /\ satdict[i].vals[4] = d}

\* Satellite i is a best candidate of its direction: no candidate has a
\* lower deviation, and none of the same deviation a higher signal-to-noise.
Best(d, i) ==
    /\ i \in Candidates(d)
    /\ \A j \in Candidates(d) :
           \/ satdict[j].vals[5] > satdict[i].vals[5]
           \/ /\ satdict[j].vals[5] = satdict[i].vals[5]
              /\ satdict[j].vals[3] <= satdict[i].vals[3]

EntryOf(i) ==
    <<satdict[i].prn, satdict[i].vals[1], satdict[i].vals[2],
      satdict[i].vals[3], satdict[i].vals[5]>>

\* C1: on a classified table selectsats completes, and ChosenFour has an
\* entry for exactly the directions that have a candidate, each the entry of
\* a candidate of lowest deviation and, among those, of highest
\* signal-to-noise.
C1_SelectsBestPerDirection ==
    (Selected /\ Classified) =>
        /\ pc = "preparemothers"
        /\ DOMAIN chosenfour = {d \in Directions : Candidates(d) # {}}
        /\ \A d \in DOMAIN chosenfour :
               \E i \in Candidates(d) :
                   Best(d, i) /\ chosenfour[d] = EntryOf(i)

\* The table without its boundary satellites.
WithoutBoundary ==
    SelectSeq(satdict, LAMBDA sat : sat.vals[2] \notin BoundaryAzimuths)

\* C2: on a table that holds a satellite at azimuth 45, 135, 225 or 315,
\* directionclassify and selectsats complete, no entry of ChosenFour is a
\* boundary satellite, and ChosenFour is what selectsats returns for the
\* table without the boundary satellites.
C2_BoundaryExcluded ==
    (Selected /\ \E i \in 1..Len(satdict) :
                     satdict[i].vals[2] \in BoundaryAzimuths) =>
        /\ pc = "preparemothers"
        /\ \A d \in DOMAIN chosenfour :
               chosenfour[d][3] \notin BoundaryAzimuths
        /\ LET r == selectsats(WithoutBoundary)
           IN  r.exc = "" => chosenfour = r.val

-----------------------------------------------------------------------------
(* Properties of the assembler and of the read loops. *)

\* parseGSV has returned its group.
Assembled == Len(gsvlist) >= 1 /\ Len(gsvlist) = num_of_sentences

\* The lines the group was read from: the last lines the transport gave.
GroupLine(i) == Lines[consumed[Len(consumed) - Len(gsvlist) + i]]

\* C3: when a follow-up sentence of the report failed decoding, the group
\* holds None at its place, and the flattening completes with the fields of
\* the well-formed sentences only.
C3_PlaceholderFlattened ==
    (Assembled /\ \E i \in 2..Len(gsvlist) : gsvlist[i].none) =>
        /\ satellitepositions.tag = "list"
        /\ satellitepositions.val =
               formatgsvlist(SelectSeq(gsvlist, LAMBDA g : ~g.none)).val

\* C4: getsatellites never returns without a field list: a satellite-view
\* line that fails decoding is discarded and the loop reads on.
C4_BadHeaderDiscarded ==
    satellitepositions # Unset => satellitepositions.tag = "list"

\* C5: the group parseGSV returns has as many members as its first sentence
\* declares, and members 2..N are the decoded lines of satellite-view
\* sentences: no line of another sentence type is a member.
C5_GroupOfSameType ==
    Assembled =>
        \A i \in 2..Len(gsvlist) :
            /\ startswith(GroupLine(i), <<"$","G","P","G","S","V">>)
            /\ gsvlist[i] = formatline(GroupLine(i)).val

\* C8: once a KeyboardInterrupt has been raised in a read, the process has
\* exited with the port closed, getsatellites has returned nothing and no
\* diagram was made.
C8_InterruptReleasesTransport ==
    interrupted =>
        /\ pc = "exited"
        /\ ~gpsOpen
        /\ satellitepositions = Unset
        /\ satdict = <<>>
        /\ motherstring = <<>>

\* The interrupt came while parseGSV was reading the follow-up sentences of
\* a group it had begun.
C8_Witness ==
    /\ interrupted
    /\ Len(gsvlist) >= 1
    /\ Len(gsvlist) < num_of_sentences
    /\ pc = "exited"

-----------------------------------------------------------------------------
(* Properties of the renderer. *)

\* preparemothers has run: it returned or raised.
Rendered == pc = "done" \/ pc = "crashed"

\* C9: for a ChosenFour that lacks a direction, preparemothers returns no
\* text and raises to its caller.
C9_MissingDirectionRefused ==
    (Rendered /\ DOMAIN chosenfour # Directions) =>
        /\ pc = "crashed"
        /\ exc = Uncaught("KeyError", "preparemothers")
        /\ motherstring = <<>>

\* Only East is missing, and preparemothers raised.
C9_Witness ==
    /\ pc = "crashed"
    /\ DOMAIN chosenfour = {"North", "South", "West"}

\* The lines of a text.
TextLines(text) == split(text, "\n")

\* The two characters of column c (1..4) in a data row.
GlyphPair(rowline, c) == SubSeq(rowline, 8 * c + 3, 8 * c + 4)

\* The direction of each column, left to right.
ColumnDirection == <<"West", "North", "East", "South">>

\* C10: for a ChosenFour with all four directions, the text has four data
\* rows (identifier, elevation, azimuth, signal-to-noise), each with one
\* glyph pair per column West, North, East, South and no other mark: two
\* marks for an even attribute, one mark and a blank for an odd one.
C10_DiagramLayout ==
    (pc = "done" /\ DOMAIN chosenfour = Directions) =>
        LET rows == SubSeq(TextLines(motherstring), 3, 6)
        IN  /\ Len(TextLines(motherstring)) = 7
            /\ \A r \in 1..4 :
                   /\ Len(rows[r]) = 42
                   /\ \A c \in 1..4 :
                          LET value == chosenfour[ColumnDirection[c]][r]
                          IN  GlyphPair(rows[r], c) =
                                  IF value % 2 = 0 THEN <<"*", "*">>
                                  ELSE <<"*", " ">>
                   /\ \A k \in 5..42 :
                          (\A c \in 1..4 : k \notin {8 * c + 3, 8 * c + 4})
                              => rows[r][k] = " "

\* A diagram was made from a ChosenFour in which the West satellite has an
\* odd identifier, the North satellite an even one, and one
\* signal-to-noise value is zero.
C10_Witness ==
    /\ pc = "done"
    /\ chosenfour["West"][1] % 2 = 1
    /\ chosenfour["North"][1] % 2 = 0
    /\ chosenfour["East"][4] = 0

=============================================================================
